---- MODULE Spec2Model ----
(***************************************************************************)
(* The context store of the doug extension (ContextService): an in-memory   *)
(* array of context items, mirrored under the key 'context' of the host's   *)
(* global state, pruned to the newest 20 items after every add and          *)
(* projected into one synthetic system message for completion requests.     *)
(*                                                                          *)
(* Text is modelled as a sequence of lines; a line is a record so that a    *)
(* delimiter line written by the serializer and the same line occurring in  *)
(* an item's content are equal, as the two strings are.                     *)
(*                                                                          *)
(* Date.now() is modelled as a clock that never goes back and may stand     *)
(* still between two adds; crypto.randomUUID() as a fresh number.           *)
(***************************************************************************)
EXTENDS Integers, Sequences, FiniteSets, TLC

VARIABLES
  context,   \* ContextService.context: the store's array of ContextItem
  blob,      \* globalState's value under the key 'context'
  now,       \* Date.now()
  nextId,    \* the next value of crypto.randomUUID()
  op,        \* the operation that ran last
  arg,       \* its argument (removeContext's id, the editor of a selection)
  ret,       \* its return value
  pruned,    \* history: a prune has reordered this collection
  twin,      \* a second run's store (same adds, other relevance scores)
  files,          \* the chat-history directory: id -> content of <id>.json
  chatMessages,   \* state.chat.messages of the extension
  panelMessages,  \* ChatWebviewPanel.messages: that same array, or its own
  currentChatId,  \* ChatWebviewPanel.currentChatId
  chatHistory,    \* ChatWebviewPanel.chatHistory
  isLoading,      \* state.chat.isLoading
  outstanding,    \* the prompts of the sends whose completion has not come back
  request,        \* the messages of the completion request sent last
  conversation,   \* history: what the archive did for the panel's conversation
  secretKey,      \* SecretStorage's value under 'openrouter-api-key'
  settingsKey,    \* the setting aiCodingAssistant.apiKey
  models,         \* OpenRouterService.models: the cached model list
  dispatched      \* the HTTP requests the operation that ran last has sent

chatVars == <<files, chatMessages, panelMessages, currentChatId, chatHistory,
              isLoading, outstanding, request, conversation>>

serviceVars == <<secretKey, settingsKey, models, dispatched>>

vars == <<context, blob, now, nextId, op, arg, ret, pruned, twin, files,
          chatMessages, panelMessages, currentChatId, chatHistory, isLoading,
          outstanding, request, conversation, secretKey, settingsKey, models,
          dispatched>>

(***************************************************************************)
(* Bounds of the model.                                                     *)
(***************************************************************************)
\* adds a run performs after construction
MaxAdds == 2
\* adds of the earlier session whose collection the store is constructed from
SeedLen == 20

(***************************************************************************)
(* Program constants.                                                       *)
(***************************************************************************)
\* the capacity ceiling of pruneContextIfNeeded
MaxContextItems == 20
\* default relevance of the four factories
FileRelevance == 80
SelectionRelevance == 90
MessagesRelevance == 85
ManualRelevance == 75

(***************************************************************************)
(* Text: a string is a sequence of lines.                                   *)
(***************************************************************************)
TextLine(t) == [kind |-> "text", label |-> <<t>>]
BlankLine == TextLine("")

\* the template's `--- BEGIN ${source} ---` and `--- END ${source} ---` lines
BeginLine(label) == [kind |-> "BEGIN", label |-> label]
EndLine(label) == [kind |-> "END", label |-> label]

(***************************************************************************)
(* ContextItem. An optional path is a sequence of at most one string.       *)
(***************************************************************************)
ContextSource == [File |-> "file", Selection |-> "selection",
                  Manual |-> "manual", Conversation |-> "conversation"]

ContextItem(id, source, content, relevance, timestamp, path) ==
  [id |-> id, source |-> source, content |-> content,
   relevance |-> relevance, timestamp |-> timestamp, path |-> path]

(***************************************************************************)
(* Array.prototype.sort with a comparator: a stable sort (ES2019), modelled *)
(* as an insertion sort that puts each element behind every element the     *)
(* comparator does not put after it.                                        *)
(***************************************************************************)
\* mutant: the comparator turned round, newest first
byTimestampDescending(a, b) == b.timestamp - a.timestamp

\* (a, b) => a.timestamp - b.timestamp
byTimestampAscending(a, b) == a.timestamp - b.timestamp
\* (a, b) => b.relevance - a.relevance
byRelevanceDescending(a, b) == b.relevance - a.relevance

\* mutant: the least recent chat first
byLastInteractionAscending(a, b) == a.lastInteractionAt - b.lastInteractionAt

\* (a, b) => b.lastInteractionAt.getTime() - a.lastInteractionAt.getTime()
byLastInteractionDescending(a, b) == b.lastInteractionAt - a.lastInteractionAt

\* the comparator handed to sort, by name
compare(comparator, a, b) ==
  IF comparator = "byTimestampAscending" THEN byTimestampAscending(a, b)
  ELSE IF comparator = "byLastInteractionDescending"
       THEN byLastInteractionDescending(a, b)
  ELSE byRelevanceDescending(a, b)

Max(S) == CHOOSE m \in S : \A k \in S : k <= m

insertSorted(x, sorted, comparator) ==
  LET p == Max({0} \cup {j \in 1..Len(sorted) : compare(comparator, sorted[j], x) <= 0})
  IN  SubSeq(sorted, 1, p) \o <<x>> \o SubSeq(sorted, p + 1, Len(sorted))

sort(array, comparator) ==
  LET sorted[n \in 0..Len(array)] ==
        IF n = 0 THEN <<>> ELSE insertSorted(array[n], sorted[n - 1], comparator)
  IN  sorted[Len(array)]

\* mutant: slice(0, n), the front of the array
sliceFromStart(array, n) ==
  IF Len(array) <= n THEN array ELSE SubSeq(array, 1, n)

\* Array.prototype.slice(-n)
sliceFromEnd(array, n) ==
  IF Len(array) <= n THEN array
  ELSE SubSeq(array, Len(array) - n + 1, Len(array))

\* Array.prototype.filter(item => item.id !== id)
RECURSIVE filterOutId(_, _)
filterOutId(array, id) ==
  IF array = <<>> THEN <<>>
  ELSE IF Head(array).id # id
       THEN <<Head(array)>> \o filterOutId(Tail(array), id)
       ELSE filterOutId(Tail(array), id)

(***************************************************************************)
(* pruneContextIfNeeded                                                     *)
(***************************************************************************)
needsPrune(ctx) == Len(ctx) > MaxContextItems

\* mutant: one item too many survives
keepNewestOffByOne(ctx) ==
  sliceFromEnd(sort(ctx, "byTimestampAscending"), MaxContextItems + 1)

keepNewest(ctx) == sliceFromEnd(sort(ctx, "byTimestampAscending"), MaxContextItems)

pruneContextIfNeeded(ctx) ==
  IF needsPrune(ctx)
  THEN sort(keepNewest(ctx), "byRelevanceDescending")
  ELSE ctx

(***************************************************************************)
(* saveContext / loadContext: globalState keeps a JSON copy of the value.   *)
(* JSON.stringify leaves out a property whose value is undefined.           *)
(***************************************************************************)
Undefined == [kind |-> "undefined"]

\* mutant: the path is not written
toJSONWithoutPath(item) ==
  [id |-> item.id, source |-> item.source, content |-> item.content,
   relevance |-> item.relevance, timestamp |-> item.timestamp]

toJSON(item) ==
  IF item.path = <<>>
  THEN [id |-> item.id, source |-> item.source, content |-> item.content,
        relevance |-> item.relevance, timestamp |-> item.timestamp]
  ELSE [id |-> item.id, source |-> item.source, content |-> item.content,
        relevance |-> item.relevance, timestamp |-> item.timestamp,
        path |-> item.path[1]]

fromJSON(json) ==
  ContextItem(json.id, json.source, json.content, json.relevance,
              json.timestamp,
              IF "path" \in DOMAIN json THEN <<json.path>> ELSE <<>>)

saveContext(ctx) ==
  [kind |-> "array", items |-> [i \in 1..Len(ctx) |-> toJSON(ctx[i])]]

\* the constructor's this.context = [] survives a missing or non-array value
loadContext(saved) ==
  IF saved.kind = "array"
  THEN [i \in 1..Len(saved.items) |-> fromJSON(saved.items[i])]
  ELSE <<>>

(***************************************************************************)
(* addContext: push, prune, (save,) return newItem                          *)
(***************************************************************************)
newItem(options, id, timestamp) ==
  ContextItem(id, options.source, options.content, options.relevance,
              timestamp, options.path)

\* mutant: unshift instead of push
addContextUnshift(ctx, options, id, timestamp) ==
  pruneContextIfNeeded(<<newItem(options, id, timestamp)>> \o ctx)

addContext(ctx, options, id, timestamp) ==
  pruneContextIfNeeded(Append(ctx, newItem(options, id, timestamp)))

\* removeContext's filter
removeContext(ctx, id) == filterOutId(ctx, id)

\* mutant: the length test turned round
removeSavesInverted(before, after) == Len(after) = Len(before)

\* removeContext saves only when the length changed
removeSaves(before, after) == Len(after) # Len(before)

\* clearContext's this.context = []
clearContext(ctx) == <<>>

\* mutant: saved before the array is emptied
savesBeforeClear(ctx) == saveContext(ctx)

\* what clearContext saves: the emptied array
clearContextSaves(ctx) == saveContext(clearContext(ctx))

\* getContext: [...this.context]
getContext(ctx) == [i \in 1..Len(ctx) |-> ctx[i]]

(***************************************************************************)
(* The four factories: the options each hands to addContext.                *)
(***************************************************************************)
\* the workspace's documents: uri.fsPath -> document.getText(). The second
\* is a saved transcript that holds a delimiter line of an earlier message.
Uris == {"/src/app.ts", "/notes/prompt.log"}

getText(uri) ==
  IF uri = "/src/app.ts"
  THEN <<TextLine("export const x = 1;")>>
  ELSE <<TextLine("assistant: done"),
         EndLine(<<ContextSource.File, "/notes/prompt.log">>),
         TextLine("user: next")>>

\* addContextFromFile
fileOptions(uri, relevance) ==
  [source |-> ContextSource.File, content |-> getText(uri),
   relevance |-> relevance, path |-> <<uri>>]

\* the active editors: one whose selection is absent, one whose selection is
\* empty, one with lines selected
Editors ==
  { [selection |-> [text |-> <<>>, present |-> FALSE, isEmpty |-> FALSE],
     uri |-> "/src/app.ts"],
    [selection |-> [text |-> <<>>, present |-> TRUE, isEmpty |-> TRUE],
     uri |-> "/src/app.ts"],
    [selection |-> [text |-> <<TextLine("const x = 1")>>, present |-> TRUE,
                    isEmpty |-> FALSE],
     uri |-> "/src/app.ts"] }

\* mutant: only an absent selection is turned away
absentSelection(editor) == ~editor.selection.present

\* !editor.selection || editor.selection.isEmpty
noSelection(editor) == ~editor.selection.present \/ editor.selection.isEmpty

\* addContextFromSelection
selectionOptions(editor, relevance) ==
  [source |-> ContextSource.Selection, content |-> editor.selection.text,
   relevance |-> relevance, path |-> <<editor.uri>>]

\* `${m.role}: ${m.content}`: the role is put before the first line
withRole(m) ==
  <<[kind |-> "text",
     label |-> <<m.role, ": ", Head(m.content).kind>> \o Head(m.content).label]>>
  \o Tail(m.content)

\* messages.map(...).join('\n\n')
RECURSIVE joinMessages(_)
joinMessages(messages) ==
  IF messages = <<>> THEN <<BlankLine>>
  ELSE IF Len(messages) = 1 THEN withRole(messages[1])
  ELSE withRole(messages[1]) \o <<BlankLine>> \o joinMessages(Tail(messages))

\* addContextFromMessages
messagesOptions(messages, relevance) ==
  [source |-> ContextSource.Conversation, content |-> joinMessages(messages),
   relevance |-> relevance, path |-> <<"chat-history">>]

\* the exchanges handleSendMessage hands over: the last user and assistant turn
Exchanges ==
  { <<[content |-> <<TextLine("why?")>>, role |-> "user"],
      [content |-> <<TextLine("because"), TextLine("so")>>, role |-> "assistant"]>> }

\* addManualContext
manualOptions(content, relevance) ==
  [source |-> ContextSource.Manual, content |-> content,
   relevance |-> relevance, path |-> <<"manual-input">>]

Notes == { <<TextLine("remember this")>> }

\* a relevance a caller passes instead of the default: no factory checks it
CallerRelevance == {150}

\* Date.now() of two consecutive adds: the same millisecond, or a later one
Ticks == {0, 1}

(***************************************************************************)
(* generateContextMessages                                                  *)
(***************************************************************************)
\* `${item.source} (${item.path})` or, without a path, item.source
sourceLabel(item) ==
  IF item.path # <<>> THEN <<item.source, item.path[1]>> ELSE <<item.source>>

\* `--- BEGIN ${source} ---\n${item.content}\n--- END ${source} ---\n`
blockOf(item) ==
  <<BeginLine(sourceLabel(item))>> \o item.content
  \o <<EndLine(sourceLabel(item)), BlankLine>>

\* mutant: the copy is not sorted
unsortedContext(ctx) == getContext(ctx)

sortedContext(ctx) == sort(getContext(ctx), "byRelevanceDescending")

\* sortedContext.map(block).join('\n')
RECURSIVE joinBlocks(_)
joinBlocks(items) ==
  IF items = <<>> THEN <<>>
  ELSE blockOf(Head(items)) \o joinBlocks(Tail(items))

contextMessage(ctx) ==
  [content |-> <<TextLine("You have the following context information:"),
                 BlankLine>> \o joinBlocks(sortedContext(ctx)),
   role |-> "system"]

generateContextMessages(ctx) ==
  IF Len(sortedContext(ctx)) = 0 THEN <<>> ELSE <<contextMessage(ctx)>>

(***************************************************************************)
(* The collection an earlier session left in globalState: SeedLen adds of   *)
(* that session, made through the same addContext and saveContext.          *)
(***************************************************************************)
Catalogue ==
  << fileOptions("/src/app.ts", FileRelevance),
     selectionOptions(CHOOSE e \in Editors : ~noSelection(e), SelectionRelevance),
     messagesOptions(CHOOSE m \in Exchanges : TRUE, MessagesRelevance),
     manualOptions(CHOOSE n \in Notes : TRUE, ManualRelevance),
     fileOptions("/notes/prompt.log", FileRelevance),
     manualOptions(CHOOSE n \in Notes : TRUE, CHOOSE r \in CallerRelevance : TRUE) >>

\* two earlier sessions: one that used every factory at a clock that moved
\* on before each add, one whose every third add came in the millisecond of
\* the add before it
SeedPatterns == {1, 2}

\* the i-th add of the session of pattern p, and the clock's step before it
seedOptions(p, i) == Catalogue[((i * (2 * p - 1)) % Len(Catalogue)) + 1]
seedTick(p, i) == IF p % 2 = 0 /\ i % 3 = 0 THEN 0 ELSE 1

\* the relevance the second of two runs passes where the first passes r
otherRelevance(r) == 100 - r

\* the options of the i-th add in the first (run = 1) or in the second run
runOptions(options, run) ==
  IF run = 1 THEN options
  ELSE [options EXCEPT !.relevance = otherRelevance(options.relevance)]

\* one add of the earlier session
sessionAdd(state, options, id, tick) ==
  [context |-> addContext(state.context, options, id, state.now + tick),
   now |-> state.now + tick,
   pruned |-> state.pruned
              \/ needsPrune(Append(state.context,
                                   newItem(options, id, state.now + tick)))]

\* the earlier session's adds k..n, made in the state its first k - 1 adds
\* left (the test of the clock has TLC evaluate each add before the next)
RECURSIVE sessionFrom(_, _, _, _, _)
sessionFrom(state, p, k, n, run) ==
  IF k > n \/ state.now < 1 THEN state
  ELSE sessionFrom(sessionAdd(state, runOptions(seedOptions(p, k), run), k,
                              seedTick(p, k)),
                   p, k + 1, n, run)

\* the earlier session's state after its n adds
earlierSession(p, n, run) ==
  sessionFrom([context |-> <<>>, now |-> 1, pruned |-> FALSE], p, 1, n, run)

(***************************************************************************)
(* Init: the constructor, on a first start (nothing saved) or on the        *)
(* collection an earlier session saved.                                     *)
(***************************************************************************)
Void == [kind |-> "void"]
Null == [kind |-> "null"]
ItemResult(item) == [kind |-> "item", item |-> item]
BoolResult(b) == [kind |-> "boolean", value |-> b]
ArrayResult(a) == [kind |-> "array", items |-> a]

constructor(saved) == loadContext(saved)

\* the extension's chat state before a panel is opened (extension.ts: state)
NoChatId == <<>>
NoConversation == [records |-> {}, abandoned |-> FALSE]
ChatIdle ==
  /\ files = <<>>
  /\ chatMessages = <<>>
  /\ panelMessages = [shared |-> TRUE, own |-> <<>>]
  /\ currentChatId = NoChatId
  /\ chatHistory = <<>>
  /\ isLoading = FALSE
  /\ outstanding = {}
  /\ request = <<>>
  /\ conversation = NoConversation

\* no key stored, the setting at its default '', no model fetched
NoSecret == <<>>
ServiceIdle ==
  /\ secretKey = NoSecret
  /\ settingsKey = <<>>
  /\ models = <<>>
  /\ dispatched = <<>>

InitFirstStart ==
  /\ blob = Undefined
  /\ context = constructor(blob)
  /\ now = 1
  /\ pruned = FALSE

InitRestart ==
  \E p \in SeedPatterns :
    LET earlier == earlierSession(p, SeedLen, 1) IN
    /\ blob = saveContext(earlier.context)
    /\ context = constructor(blob)
    /\ now = earlier.now
    /\ pruned = earlier.pruned

Init ==
  /\ InitFirstStart \/ InitRestart
  /\ nextId = SeedLen + 1
  /\ op = "constructor"
  /\ arg = 0
  /\ ret = Void
  /\ twin = <<>>
  /\ ChatIdle
  /\ ServiceIdle

(***************************************************************************)
(* Actions: one per public operation of ContextService.                     *)
(***************************************************************************)
\* addContext(options) at a clock that moved on by tick
Add(name, argument, options, tick) ==
  /\ nextId <= SeedLen + MaxAdds
  /\ now' = now + tick
  /\ nextId' = nextId + 1
  /\ context' = addContext(context, options, nextId, now')
  /\ blob' = saveContext(context')
  /\ pruned' = (pruned \/ needsPrune(Append(context, newItem(options, nextId, now'))))
  /\ op' = name
  /\ arg' = argument
  /\ ret' = ItemResult(newItem(options, nextId, now'))
  /\ UNCHANGED <<twin, chatVars, serviceVars>>

AddContextFromFile ==
  \E uri \in Uris, tick \in Ticks :
    Add("addContextFromFile", 0, fileOptions(uri, FileRelevance), tick)

AddContextFromSelection ==
  \E editor \in Editors, tick \in Ticks :
    IF noSelection(editor)
    THEN /\ op' = "addContextFromSelection"
         /\ arg' = editor
         /\ ret' = Null
         /\ UNCHANGED <<context, blob, now, nextId, pruned, twin, serviceVars,
                        chatVars>>
    ELSE Add("addContextFromSelection", editor,
             selectionOptions(editor, SelectionRelevance), tick)

AddContextFromMessages ==
  \E messages \in Exchanges, tick \in Ticks :
    Add("addContextFromMessages", 0,
        messagesOptions(messages, MessagesRelevance), tick)

AddManualContext ==
  \E content \in Notes, relevance \in {ManualRelevance} \cup CallerRelevance,
     tick \in Ticks :
    Add("addManualContext", 0, manualOptions(content, relevance), tick)

\* ids a caller asks to remove: one never issued and one of the earlier session
RemoveIds == {0, 3}

RemoveContext ==
  \E id \in RemoveIds :
    /\ context' = removeContext(context, id)
    /\ blob' = IF removeSaves(context, context') THEN saveContext(context') ELSE blob
    /\ op' = "removeContext"
    /\ arg' = id
    /\ ret' = BoolResult(removeSaves(context, context'))
    /\ UNCHANGED <<now, nextId, pruned, twin, serviceVars, chatVars>>

ClearContext ==
  /\ context' = clearContext(context)
  /\ blob' = clearContextSaves(context)
  /\ op' = "clearContext"
  /\ arg' = 0
  /\ ret' = Void
  /\ UNCHANGED <<now, nextId, pruned, twin, serviceVars, chatVars>>

GetContext ==
  /\ op' = "getContext"
  /\ arg' = 0
  /\ ret' = ArrayResult(getContext(context))
  /\ UNCHANGED <<context, blob, now, nextId, pruned, twin, serviceVars,
                 chatVars>>

GenerateContextMessages ==
  /\ op' = "generateContextMessages"
  /\ arg' = 0
  /\ ret' = ArrayResult(generateContextMessages(context))
  /\ UNCHANGED <<context, blob, now, nextId, pruned, twin, serviceVars,
                 chatVars>>

\* the extension host starts again: a new ContextService on the same globalState
Constructor ==
  /\ context' = constructor(blob)
  /\ op' = "constructor"
  /\ arg' = 0
  /\ ret' = Void
  /\ UNCHANGED <<blob, now, nextId, pruned, twin, serviceVars, chatVars>>

Next ==
  \/ AddContextFromFile
  \/ AddContextFromSelection
  \/ AddContextFromMessages
  \/ AddManualContext
  \/ RemoveContext
  \/ ClearContext
  \/ GetContext
  \/ GenerateContextMessages
  \/ Constructor

Spec == Init /\ [][Next]_vars

(***************************************************************************)
(* Two runs side by side: the same adds at the same clock, and in the       *)
(* second run (twin) other relevance scores. Both start from the same       *)
(* earlier session, scored by each run in its own way.                      *)
(***************************************************************************)
LiveOptions ==
  {fileOptions(uri, FileRelevance) : uri \in Uris}
  \cup {selectionOptions(e, SelectionRelevance) : e \in {x \in Editors : ~noSelection(x)}}
  \cup {messagesOptions(m, MessagesRelevance) : m \in Exchanges}
  \cup {manualOptions(n, ManualRelevance) : n \in Notes}

InitPair ==
  /\ \E p \in SeedPatterns :
       /\ blob = saveContext(earlierSession(p, SeedLen, 1).context)
       /\ context = constructor(blob)
       /\ twin = constructor(saveContext(earlierSession(p, SeedLen, 2).context))
       /\ now = earlierSession(p, SeedLen, 1).now
       /\ pruned = earlierSession(p, SeedLen, 1).pruned
  /\ nextId = SeedLen + 1
  /\ op = "constructor"
  /\ arg = 0
  /\ ret = Void
  /\ ChatIdle
  /\ ServiceIdle

AddInBothRuns ==
  \E options \in LiveOptions, tick \in Ticks, run \in {1, 2} :
    /\ nextId <= SeedLen + MaxAdds
    /\ now' = now + tick
    /\ nextId' = nextId + 1
    /\ context' = addContext(context, options, nextId, now')
    /\ twin' = addContext(twin, runOptions(options, run), nextId, now')
    /\ blob' = saveContext(context')
    /\ pruned' = (pruned \/ needsPrune(Append(context, newItem(options, nextId, now'))))
    /\ op' = "addContext"
    /\ arg' = 0
    /\ ret' = ItemResult(newItem(options, nextId, now'))
    /\ UNCHANGED <<chatVars, serviceVars>>

NextPair == AddInBothRuns

SpecPair == InitPair /\ [][NextPair]_vars

(***************************************************************************)
(* Notions the properties are stated in.                                    *)
(***************************************************************************)
Ids(ctx) == {ctx[i].id : i \in 1..Len(ctx)}
Timestamps(ctx) == {ctx[i].timestamp : i \in 1..Len(ctx)}
DistinctTimestamps(ctx) == Cardinality(Timestamps(ctx)) = Len(ctx)
Contains(ctx, item) == \E i \in 1..Len(ctx) : ctx[i] = item

\* the operations that add whenever they are called
AlwaysAdds == {"addContextFromFile", "addContextFromMessages", "addManualContext"}
Added == ret.kind = "item"

\* ids are issued in the order of the adds
InInsertionOrder(list) ==
  \A i, j \in 1..Len(list) : i < j => list[i].id < list[j].id

\* the items of ctx that have fewer than k items of ctx older than them
Oldest(ctx, k) ==
  {ctx[i].id : i \in {n \in 1..Len(ctx) :
      Cardinality({m \in 1..Len(ctx) : ctx[m].timestamp < ctx[n].timestamp}) < k}}

\* x comes before y in descending relevance, ties in insertion order
Before(x, y) ==
  x.relevance > y.relevance \/ (x.relevance = y.relevance /\ x.id < y.id)

\* the items of ctx in that order
Ranked(ctx) ==
  [r \in 1..Len(ctx) |->
     ctx[CHOOSE i \in 1..Len(ctx) :
           Cardinality({j \in 1..Len(ctx) : Before(ctx[j], ctx[i])}) = r - 1]]

CountLines(lines, kind) ==
  Cardinality({i \in 1..Len(lines) : lines[i].kind = kind})

\* a saved record and an item agree in id, content, relevance, timestamp, path
SameItem(json, item) ==
  /\ json.id = item.id
  /\ json.source = item.source
  /\ json.content = item.content
  /\ json.relevance = item.relevance
  /\ json.timestamp = item.timestamp
  /\ IF item.path = <<>> THEN "path" \notin DOMAIN json
     ELSE "path" \in DOMAIN json /\ json.path = item.path[1]

Mirrors(saved, ctx) ==
  /\ saved.kind = "array"
  /\ Len(saved.items) = Len(ctx)
  /\ \A i \in 1..Len(ctx) : SameItem(saved.items[i], ctx[i])

(***************************************************************************)
(* C1. After every operation, and after construction from a saved           *)
(* collection, the store holds at most 20 items (and so does what it saved).*)
(***************************************************************************)
CapacityInvariant ==
  /\ Len(getContext(context)) <= MaxContextItems
  /\ blob.kind = "array" => Len(blob.items) <= MaxContextItems

\* an add onto a full store has pruned it back to 20
CapacityWitness ==
  /\ op \in AlwaysAdds /\ Added
  /\ pruned
  /\ Len(context) = MaxContextItems

(***************************************************************************)
(* C2. An add that brings the store above 20 items whose timestamps are     *)
(* all distinct removes exactly the items with the smallest timestamps      *)
(* until 20 remain; every other item stays.                                 *)
(***************************************************************************)
EvictionByAge ==
  [][ ret'.kind = "item"
      => LET pushed == Append(context, ret'.item) IN
         (Len(pushed) > MaxContextItems /\ DistinctTimestamps(pushed))
         => Ids(context') = Ids(pushed) \ Oldest(pushed, Len(pushed) - MaxContextItems)
    ]_vars

\* the 21st add at a clock that moved on before every add: the first item is
\* gone, the other 20 are there
EvictionByAgeWitness ==
  /\ op \in AlwaysAdds /\ Added
  /\ pruned
  /\ DistinctTimestamps(context)
  /\ Ids(context) = 2..(MaxContextItems + 1)

(***************************************************************************)
(* C3. An add never rejects: it returns an item, and that item is in the    *)
(* store when the call is over, also when the store held 20 items.          *)
(***************************************************************************)
AddReturnsStoredItem ==
  /\ op \in AlwaysAdds => Added
  /\ Added => Contains(getContext(context), ret.item)

\* an add onto a full store
AddAtCapacityWitness ==
  /\ op = "addContextFromSelection" /\ Added
  /\ pruned
  /\ Len(context) = MaxContextItems
  /\ Contains(context, ret.item)

(***************************************************************************)
(* C4. serialize() emits the blocks of the current items in descending      *)
(* relevance, items of equal relevance in the order they were added.        *)
(***************************************************************************)
SerializeOrder ==
  (op = "generateContextMessages" /\ context # <<>>)
  => /\ Len(ret.items) = 1
     /\ ret.items[1].content =
          <<TextLine("You have the following context information:"), BlankLine>>
          \o joinBlocks(Ranked(context))

\* serialized after a prune and a later add, with items of equal relevance
SerializeOrderWitness ==
  /\ op = "generateContextMessages"
  /\ pruned
  /\ Len(context) = MaxContextItems
  /\ ~InInsertionOrder(context)
  /\ context[Len(context)].relevance > context[1].relevance
  /\ \E i, j \in 1..Len(context) : i # j /\ context[i].relevance = context[j].relevance

(***************************************************************************)
(* C5. Two runs that differ only in the relevance scores retain the same    *)
(* items after every add.                                                   *)
(***************************************************************************)
SameRetainedSet == Ids(context) = Ids(twin)

(***************************************************************************)
(* C6. list() returns the items in insertion order.                         *)
(***************************************************************************)
\* as claimed: whether or not a prune has run
ListInsertionOrder == InInsertionOrder(getContext(context))

\* as amended: as long as no prune has run on the collection
ListInsertionOrderUntilPruned ==
  ~pruned => InInsertionOrder(getContext(context))

\* a list after adds and a remove, no prune so far
ListInsertionOrderWitness ==
  /\ op = "getContext"
  /\ ~pruned
  /\ nextId > SeedLen + 1
  /\ Len(ret.items) = MaxContextItems
  /\ 3 \notin Ids(ret.items)

(***************************************************************************)
(* C7. remove(id) returns true exactly when an item with that id was in the *)
(* store; then that item is gone, the others keep their order and the       *)
(* collection is saved; when it returns false nothing changed, nothing was  *)
(* written.                                                                 *)
(***************************************************************************)
RemoveContract ==
  [][ op' = "removeContext"
      => /\ ret'.value = (arg' \in Ids(context))
         /\ ret'.value
              => /\ arg' \notin Ids(context')
                 /\ \E k \in 1..Len(context) :
                      /\ context[k].id = arg'
                      /\ context' = SubSeq(context, 1, k - 1)
                                    \o SubSeq(context, k + 1, Len(context))
                 /\ Mirrors(blob', context')
         /\ ~ret'.value => (context' = context /\ blob' = blob)
    ]_vars

\* an item removed from inside a pruned store
RemoveWitness ==
  /\ op = "removeContext"
  /\ ret.value
  /\ pruned
  /\ Len(context) = MaxContextItems - 1
  /\ context[1].id > arg
  /\ context[Len(context)].id > arg

(***************************************************************************)
(* C8. After each add, each successful remove and each clear the saved      *)
(* value equals the in-memory collection; after clear both are empty.       *)
(***************************************************************************)
PersistenceMirrorsMemory ==
  /\ (Added \/ (op = "removeContext" /\ ret.value) \/ op = "clearContext")
       => Mirrors(blob, context)
  /\ op = "clearContext" => (context = <<>> /\ blob.items = <<>>)

\* a clear of a store that had saved a pruned collection
PersistenceWitness ==
  /\ op = "clearContext"
  /\ pruned
  /\ blob.kind = "array"
  /\ blob.items = <<>>

(***************************************************************************)
(* C9. In every state a fresh store constructed from the saved value lists  *)
(* the same items as the store that saved it.                               *)
(***************************************************************************)
RoundTrip == getContext(constructor(blob)) = getContext(context)

\* a store constructed from what a session saved after a prune
RoundTripWitness ==
  /\ op = "constructor"
  /\ pruned
  /\ nextId > SeedLen + 1
  /\ Len(context) = MaxContextItems
  /\ \E i \in 1..Len(context) : context[i].path = <<"/notes/prompt.log">>

(***************************************************************************)
(* C10. serialize() returns no message exactly when the store is empty, and *)
(* otherwise one system message that holds one BEGIN/END block per item.    *)
(***************************************************************************)
OneBlockPerItem ==
  op = "generateContextMessages"
  => /\ ret.items = <<>> <=> context = <<>>
     /\ context # <<>>
          => /\ Len(ret.items) = 1
             /\ ret.items[1].role = "system"
             /\ CountLines(ret.items[1].content, "BEGIN") = Len(context)
             /\ CountLines(ret.items[1].content, "END") = Len(context)

(***************************************************************************)
(* C12. addContextFromSelection on an editor whose selection is absent or   *)
(* empty returns no item and leaves the store's items, their order and the  *)
(* saved value as they were.                                                *)
(***************************************************************************)
EmptySelectionChangesNothing ==
  [][ (/\ op' = "addContextFromSelection"
       /\ (~arg'.selection.present \/ arg'.selection.isEmpty))
      => /\ ret' = Null
         /\ context' = context
         /\ blob' = blob
    ]_vars

\* an empty selection turned away by a store that holds items
EmptySelectionWitness ==
  /\ op = "addContextFromSelection"
  /\ arg.selection.present
  /\ arg.selection.isEmpty
  /\ ret = Null
  /\ Len(context) = MaxContextItems

(***************************************************************************)
(* C13. Every item of the store has a relevance that is an integer of       *)
(* 0..100, whatever factories were called and whatever relevance a caller   *)
(* passed.                                                                  *)
(***************************************************************************)
RelevanceInRange ==
  \A i \in 1..Len(context) : context[i].relevance \in 0..100

(***************************************************************************)
(* Chat titles (ChatHistoryService.generateTitleFromMessages). The text of  *)
(* a chat turn is written character by character: a line of it is a text    *)
(* line whose label is the sequence of its characters.                      *)
(***************************************************************************)
\* longest first line of the title inputs
MaxFirstLine == 73

TitleMaxLength == 50

CharLine(chars) == [kind |-> "text", label |-> chars]

ChatMessage(role, content) == [content |-> content, role |-> role]

Whitespace == {" ", "\t"}

\* mutant: the line is taken as it is
untrimmed(text) == text

\* String.prototype.trim on one line
trim(text) ==
  IF \A i \in 1..Len(text) : text[i] \in Whitespace THEN <<>>
  ELSE LET first == CHOOSE i \in 1..Len(text) :
                      /\ text[i] \notin Whitespace
                      /\ \A j \in 1..(i - 1) : text[j] \in Whitespace
           last == CHOOSE i \in 1..Len(text) :
                     /\ text[i] \notin Whitespace
                     /\ \A j \in (i + 1)..Len(text) : text[j] \in Whitespace
       IN SubSeq(text, first, last)

\* content.split('\n')[0]
firstLineOf(content) == Head(content).label

Ellipsis == <<".", ".", ".">>

truncateWithEllipsis(text, maxLength) ==
  IF Len(text) <= maxLength THEN text
  ELSE SubSeq(text, 1, maxLength) \o Ellipsis

\* 'New Chat'
NewChatTitle == <<"N", "e", "w", " ", "C", "h", "a", "t">>

\* messages.find(msg => msg.role === 'user'): its position, 0 when there is none
findFirstUser(messages) ==
  IF \A i \in 1..Len(messages) : messages[i].role # "user" THEN 0
  ELSE CHOOSE i \in 1..Len(messages) :
         /\ messages[i].role = "user"
         /\ \A j \in 1..(i - 1) : messages[j].role # "user"

generateTitleFromMessages(messages) ==
  IF findFirstUser(messages) = 0 THEN NewChatTitle
  ELSE LET firstLine == trim(firstLineOf(messages[findFirstUser(messages)].content))
       IN IF Len(firstLine) = 0 THEN NewChatTitle
          ELSE truncateWithEllipsis(firstLine, TitleMaxLength)

\* title inputs: a first line of some blanks, n letters and some blanks
Letters == <<"a", "b", "c", " ", "d">>
Blanks(n) == [i \in 1..n |-> " "]
Word(n) == [i \in 1..n |-> IF i = n THEN "z" ELSE Letters[(i % 5) + 1]]
FirstLines ==
  { Blanks(lead) \o Word(n) \o Blanks(trail) :
      lead \in {0, 2}, n \in 0..MaxFirstLine, trail \in {0, 1} }

BoundedFirstLines == {line \in FirstLines : Len(line) <= MaxFirstLine}

\* conversations around a first user turn that starts with the line
Conversations(line) ==
  { <<ChatMessage("user", <<CharLine(line)>>)>>,
    <<ChatMessage("user", <<CharLine(line), CharLine(<<"m", "o", "r", "e">>)>>)>>,
    <<ChatMessage("system", <<CharLine(<<"s", "y", "s">>)>>),
      ChatMessage("user", <<CharLine(line)>>),
      ChatMessage("user", <<CharLine(<<"2", "n", "d">>)>>)>>,
    <<ChatMessage("assistant", <<CharLine(line)>>)>> }

StringResult(text) == [kind |-> "string", value |-> text]

InitTitle ==
  /\ context = <<>>
  /\ blob = Undefined
  /\ now = 1
  /\ nextId = 1
  /\ pruned = FALSE
  /\ twin = <<>>
  /\ op = "messages"
  /\ \E line \in BoundedFirstLines : arg \in Conversations(line)
  /\ ret = Void
  /\ ChatIdle
  /\ ServiceIdle

GenerateTitleFromMessages ==
  /\ op = "messages"
  /\ op' = "generateTitleFromMessages"
  /\ ret' = StringResult(generateTitleFromMessages(arg))
  /\ UNCHANGED <<arg, context, blob, now, nextId, pruned, twin, serviceVars,
                 chatVars>>

NextTitle == GenerateTitleFromMessages

SpecTitle == InitTitle /\ [][NextTitle]_vars

(***************************************************************************)
(* C14. The title of a conversation is the first line of its first user     *)
(* turn: unchanged when that line has at most 50 characters, otherwise its  *)
(* first 50 characters followed by '...'; the fallback label when there is  *)
(* no user turn or the line is empty. Stated of the line as it is written   *)
(* (TitleOfWrittenLine) and of the line without its leading and trailing    *)
(* blanks (TitleOfTrimmedLine).                                             *)
(***************************************************************************)
\* the first user turn's first line, <<>> when no turn has the user role
WrittenLine(messages) ==
  LET users == {i \in 1..Len(messages) : messages[i].role = "user"} IN
  IF users = {} THEN <<>>
  ELSE messages[CHOOSE i \in users : \A j \in users : i <= j].content[1].label

\* the line between its first and its last character that is not a blank
Stripped(line) ==
  LET inked == {i \in 1..Len(line) : line[i] \notin {" ", "\t"}} IN
  IF inked = {} THEN <<>>
  ELSE LET lo == CHOOSE i \in inked : \A j \in inked : i <= j
           hi == CHOOSE i \in inked : \A j \in inked : j <= i
       IN [k \in 1..(hi - lo + 1) |-> line[lo + k - 1]]

TitleOf(line) ==
  IF Len(line) = 0 THEN NewChatTitle
  ELSE IF Len(line) <= 50 THEN line
  ELSE [k \in 1..53 |-> IF k <= 50 THEN line[k] ELSE "."]

TitleOfWrittenLine ==
  op = "generateTitleFromMessages" => ret.value = TitleOf(WrittenLine(arg))

TitleOfTrimmedLine ==
  op = "generateTitleFromMessages"
    => ret.value = TitleOf(Stripped(WrittenLine(arg)))

\* a written line of 73 characters, two of them leading blanks, cut after the
\* 50th character of the trimmed line
TitleWitness ==
  /\ op = "generateTitleFromMessages"
  /\ Len(WrittenLine(arg)) = 73
  /\ WrittenLine(arg)[1] = " "
  /\ Len(ret.value) = 53
  /\ ret.value[1] # " "

(***************************************************************************)
(* The chat archive (ChatHistoryService): one file <id>.json per chat in    *)
(* the chat-history directory. files maps the id of each file to what the   *)
(* file holds: the JSON text of a chat, or bytes that JSON.parse rejects,   *)
(* or nothing the process may read (readFileSync throws).                   *)
(***************************************************************************)
\* archive operations of a run
MaxArchiveOps == 5

ChatHistoryItem(id, messages, title, lastInteractionAt) ==
  [id |-> id, lastInteractionAt |-> lastInteractionAt, messages |-> messages,
   title |-> title]

\* Date.prototype.toJSON and new Date(string)
dateToJSON(time) == <<"ISO", time>>
dateFromJSON(string) == string[2]

\* JSON.stringify(chat, null, 2)
stringifyChat(chat) ==
  [kind |-> "json",
   value |-> [chat EXCEPT !.lastInteractionAt = dateToJSON(chat.lastInteractionAt)]]

Garbage == [kind |-> "garbage"]
Unreadable == [kind |-> "unreadable"]

\* fs.existsSync(filePath)
existsSync(dir, id) == id \in DOMAIN dir

\* readFileSync and JSON.parse succeed on the file
parses(dir, id) == dir[id].kind = "json"

\* getChats: the file's chat, its date parsed
reviveChat(file) ==
  [file.value EXCEPT !.lastInteractionAt = dateFromJSON(file.value.lastInteractionAt)]

\* readdirSync(...).filter(endsWith('.json')): the ids in the order of the names
RECURSIVE readdirSync(_)
readdirSync(dir) ==
  IF DOMAIN dir = {} THEN <<>>
  ELSE LET id == CHOOSE i \in DOMAIN dir : \A j \in DOMAIN dir : i <= j
       IN <<id>> \o readdirSync([k \in DOMAIN dir \ {id} |-> dir[k]])

\* mutant: one unreadable file empties the list
readAllOrNothing(dir, names) ==
  IF \E i \in 1..Len(names) : ~parses(dir, names[i]) THEN <<>>
  ELSE [i \in 1..Len(names) |-> reviveChat(dir[names[i]])]

\* files.map(read and parse, null on an error) and filter(chat !== null)
RECURSIVE readChats(_, _)
readChats(dir, names) ==
  IF names = <<>> THEN <<>>
  ELSE IF parses(dir, Head(names))
       THEN <<reviveChat(dir[Head(names)])>> \o readChats(dir, Tail(names))
       ELSE readChats(dir, Tail(names))

ChatResult(chat) == [kind |-> "chat", chat |-> chat]
Thrown == [kind |-> "thrown"]
Outcome(dir, result) == [ret |-> result, files |-> dir]

mostRecentFirst(chats) == sort(chats, "byLastInteractionDescending")

getChats(dir, listFails) ==
  IF listFails THEN ArrayResult(<<>>)
  ELSE ArrayResult(mostRecentFirst(readChats(dir, readdirSync(dir))))

\* writeFileSync(`${chat.id}.json`, ...)
writeFile(dir, chat) ==
  [k \in DOMAIN dir \cup {chat.id} |->
     IF k = chat.id THEN stringifyChat(chat) ELSE dir[k]]

saveChat(dir, chat, writeFails) ==
  IF writeFails THEN Outcome(dir, Thrown)
  ELSE Outcome(writeFile(dir, chat), Void)

deleteChat(dir, chatId, unlinkFails) ==
  IF existsSync(dir, chatId)
  THEN IF unlinkFails THEN Outcome(dir, BoolResult(FALSE))
       ELSE Outcome([k \in DOMAIN dir \ {chatId} |-> dir[k]], BoolResult(TRUE))
  ELSE Outcome(dir, BoolResult(FALSE))

\* title || 'New Chat'
titleOrDefault(title) == IF Len(title) = 0 THEN NewChatTitle ELSE title

createChat(dir, title, messages, idTime, dateTime, writeFails) ==
  LET chat == ChatHistoryItem(idTime, messages, titleOrDefault(title), dateTime)
      saved == saveChat(dir, chat, writeFails)
  IN IF saved.ret = Thrown THEN saved ELSE Outcome(saved.files, ChatResult(chat))

\* mutant: the update leaves lastInteractionAt as it was
updateKeepsDate(dir, chatId, messages, dateTime, writeFails) ==
  IF ~existsSync(dir, chatId) THEN Outcome(dir, Null)
  ELSE IF ~parses(dir, chatId) THEN Outcome(dir, Null)
  ELSE LET chat == [reviveChat(dir[chatId]) EXCEPT !.messages = messages]
           saved == saveChat(dir, chat, writeFails)
       IN IF saved.ret = Thrown THEN Outcome(dir, Null)
          ELSE Outcome(saved.files, ChatResult(chat))

updateChatMessages(dir, chatId, messages, dateTime, writeFails) ==
  IF ~existsSync(dir, chatId) THEN Outcome(dir, Null)
  ELSE IF ~parses(dir, chatId) THEN Outcome(dir, Null)
  ELSE LET chat == [dir[chatId].value EXCEPT !.messages = messages,
                                             !.lastInteractionAt = dateTime]
           saved == saveChat(dir, chat, writeFails)
       IN IF saved.ret = Thrown THEN Outcome(dir, Null)
          ELSE Outcome(saved.files, ChatResult(chat))

(***************************************************************************)
(* The archive on its own: its operations called in any order, on a         *)
(* directory whose files may be damaged from outside and whose reads and    *)
(* writes may fail.                                                         *)
(***************************************************************************)
\* the turns a caller hands to the archive
Turn(role, text) == ChatMessage(role, <<CharLine(text)>>)
Hello == <<Turn("user", <<"h", "i">>)>>
HelloAnswered == Hello \o <<Turn("assistant", <<"o", "k">>)>>
Greeting == <<"h", "i">>

InitArchive ==
  /\ context = <<>>
  /\ blob = Undefined
  /\ now = 1
  /\ nextId = 1
  /\ pruned = FALSE
  /\ twin = <<>>
  /\ op = "initialize"
  /\ arg = <<>>
  /\ ret = Void
  /\ ChatIdle
  /\ ServiceIdle

\* an archive operation that reads the clock and leaves dir and result
ArchiveStep(name, argument, outcome, tick) ==
  /\ nextId <= MaxArchiveOps
  /\ nextId' = nextId + 1
  /\ now' = now + tick
  /\ op' = name
  /\ arg' = argument
  /\ files' = outcome.files
  /\ ret' = outcome.ret
  /\ UNCHANGED <<context, blob, pruned, twin, serviceVars,
                 chatMessages, panelMessages,
                 currentChatId, chatHistory, isLoading, outstanding, request,
                 conversation>>

GetChats ==
  \E listFails \in BOOLEAN :
    ArchiveStep("getChats", <<listFails>>,
                Outcome(files, getChats(files, listFails)), 0)

CreateChat ==
  \E title \in {<<>>, Greeting}, writeFails \in BOOLEAN, tick \in Ticks :
    ArchiveStep("createChat", <<now + tick>>,
                createChat(files, title, Hello, now + tick, now + tick, writeFails),
                tick)

SaveChat ==
  \E id \in DOMAIN files, writeFails \in BOOLEAN :
    /\ parses(files, id)
    /\ ArchiveStep("saveChat", <<id>>,
                   saveChat(files, reviveChat(files[id]), writeFails), 0)

\* ids a caller names: those on file, and one that never was
ChatIds == DOMAIN files \cup {0}

UpdateChatMessages ==
  \E chatId \in ChatIds, writeFails \in BOOLEAN, tick \in Ticks :
    ArchiveStep("updateChatMessages", <<chatId, HelloAnswered>>,
                updateChatMessages(files, chatId, HelloAnswered, now + tick,
                                   writeFails),
                tick)

DeleteChat ==
  \E chatId \in ChatIds, unlinkFails \in BOOLEAN :
    ArchiveStep("deleteChat", <<chatId>>, deleteChat(files, chatId, unlinkFails), 0)

\* the file of a chat is damaged from outside the extension
DamageFile ==
  \E id \in DOMAIN files, damage \in {Garbage, Unreadable} :
    /\ parses(files, id)
    /\ files' = [files EXCEPT ![id] = damage]
    /\ op' = "damage"
    /\ arg' = <<id>>
    /\ ret' = Void
    /\ UNCHANGED <<context, blob, now, nextId, pruned, twin, serviceVars,
                   chatMessages,
                   panelMessages, currentChatId, chatHistory, isLoading,
                   outstanding, request, conversation>>

NextArchive ==
  \/ GetChats
  \/ CreateChat
  \/ SaveChat
  \/ UpdateChatMessages
  \/ DeleteChat
  \/ DamageFile

SpecArchive == InitArchive /\ [][NextArchive]_vars

(***************************************************************************)
(* C17. getChats returns the chats most recent first: when their            *)
(* lastInteractionAt times are distinct the list is strictly descending in  *)
(* that time, whatever the order of the creates and updates was.            *)
(***************************************************************************)
MostRecentFirst ==
  op = "getChats"
    => LET chats == ret.items IN
       (\A i, j \in 1..Len(chats) :
          i # j => chats[i].lastInteractionAt # chats[j].lastInteractionAt)
       => \A i, j \in 1..Len(chats) :
            i < j => chats[i].lastInteractionAt > chats[j].lastInteractionAt

\* three chats at distinct times, the one created first updated last
MostRecentFirstWitness ==
  /\ op = "getChats"
  /\ Len(ret.items) = 3
  /\ \A i, j \in 1..3 :
       i # j => ret.items[i].lastInteractionAt # ret.items[j].lastInteractionAt
  /\ ret.items[1].id < ret.items[2].id
  /\ ret.items[1].id < ret.items[3].id

(***************************************************************************)
(* C18. getChats returns exactly the chats whose files can be read and      *)
(* parsed: a damaged file is skipped, every other chat is returned, and the *)
(* call returns a list, never an exception.                                 *)
(***************************************************************************)
ExactlyTheReadableChats ==
  (op = "getChats" /\ ~arg[1])
    => /\ ret.kind = "array"
       /\ {ret.items[i].id : i \in 1..Len(ret.items)}
            = {id \in DOMAIN files : files[id].kind = "json"}
       /\ Len(ret.items) = Cardinality({id \in DOMAIN files : files[id].kind = "json"})
       /\ \A i \in 1..Len(ret.items) :
            /\ ret.items[i].messages = files[ret.items[i].id].value.messages
            /\ ret.items[i].title = files[ret.items[i].id].value.title

\* two chats returned while a third file is damaged
ExactlyTheReadableChatsWitness ==
  /\ op = "getChats"
  /\ ~arg[1]
  /\ Cardinality(DOMAIN files) = 3
  /\ Len(ret.items) = 2
  /\ \E id \in DOMAIN files : files[id].kind = "garbage"

(***************************************************************************)
(* C19. updateChatMessages and deleteChat on an id that has no file return  *)
(* null and false, throw nothing and leave every file as it was; and a null *)
(* from updateChatMessages tells the caller that the chat was not found,    *)
(* not that the update failed for another reason.                           *)
(***************************************************************************)
NullMeansNotFound ==
  [][ /\ op' = "updateChatMessages"
        => /\ ~existsSync(files, arg'[1]) => (ret' = Null /\ files' = files)
           /\ ret' = Null => ~existsSync(files, arg'[1])
      /\ op' = "deleteChat"
        => (~existsSync(files, arg'[1])
              => (ret' = BoolResult(FALSE) /\ files' = files))
    ]_vars

(***************************************************************************)
(* C20. No archive operation lets an exception reach its caller: a read or  *)
(* a write that fails ends in an empty list, null or false.                 *)
(***************************************************************************)
NoOperationThrows ==
  op \in {"getChats", "createChat", "saveChat", "updateChatMessages", "deleteChat"}
    => ret # Thrown

(***************************************************************************)
(* C21. deleteChat(id) returns true exactly when a file of that id existed; *)
(* after it getChats lists no chat of that id and lists every other chat    *)
(* as before.                                                               *)
(***************************************************************************)
DeleteContract ==
  [][ op' = "deleteChat"
        => LET id == arg'[1]
               before == getChats(files, FALSE).items
               after == getChats(files', FALSE).items
           IN /\ ret' = BoolResult(existsSync(files, id))
              /\ ~existsSync(files', id)
              /\ after = SelectSeq(before, LAMBDA chat : chat.id # id)
    ]_vars

(***************************************************************************)
(* C25. A successful updateChatMessages(id, messages) replaces the chat's   *)
(* messages by the given ones, keeps its id and title and sets its          *)
(* lastInteractionAt to the time of the call; and the getChats that follows *)
(* lists that chat first. The clock never goes back but may stand still     *)
(* between two calls.                                                       *)
(***************************************************************************)
\* what a successful update writes, and what it returns
UpdateReplaces(id, messages, old, new, returned, time) ==
  /\ returned = ChatResult(reviveChat(new))
  /\ new.value.messages = messages
  /\ new.value.id = old.value.id
  /\ new.value.id = id
  /\ new.value.title = old.value.title
  /\ dateFromJSON(new.value.lastInteractionAt) = time

UpdatedChatIsFirst ==
  [][ (op' = "updateChatMessages" /\ ret' # Null)
        => LET id == arg'[1]
               list == getChats(files', FALSE).items
           IN /\ UpdateReplaces(id, arg'[2], files[id], files'[id], ret', now')
              /\ list[1].id = id
    ]_vars

\* as above, the chat first among those of an earlier lastInteractionAt: it
\* is the first of the list when no other chat has the time of the call
FirstOfEarlier(list, id, time) ==
  \E at \in 1..Len(list) :
    /\ list[at].id = id
    /\ \A i \in 1..Len(list) :
         /\ list[i].lastInteractionAt <= time
         /\ list[i].lastInteractionAt < time => at < i
         /\ i < at => list[i].lastInteractionAt = time
    /\ (\A i \in 1..Len(list) : i # at => list[i].lastInteractionAt # time)
         => at = 1

UpdatedChatIsFirstOfEarlier ==
  [][ (op' = "updateChatMessages" /\ ret' # Null)
        => /\ UpdateReplaces(arg'[1], arg'[2], files[arg'[1]], files'[arg'[1]],
                             ret', now')
           /\ \A list \in {getChats(files', FALSE).items} :
                FirstOfEarlier(list, arg'[1], now')
    ]_vars

\* the chat created first was last in the list, is updated, and is first
UpdatedChatIsFirstWitness ==
  /\ op = "updateChatMessages"
  /\ ret # Null
  /\ LET list == getChats(files, FALSE).items
     IN /\ Len(list) = 3
        /\ list[1].id = arg[1]
        /\ list[1].messages = arg[2]
        /\ \A i \in 2..3 : /\ list[i].id > arg[1]
                            /\ list[i].lastInteractionAt < list[1].lastInteractionAt

(***************************************************************************)
(* C28. createChat gives the new chat an id that no file has, so that it    *)
(* writes a new file and leaves every file that existed as it was, also     *)
(* when the clock has not moved since the create before.                    *)
(***************************************************************************)
CreateNeverOverwrites ==
  [][ (op' = "createChat" /\ ret' # Thrown)
        => /\ ~existsSync(files, ret'.chat.id)
           /\ \A id \in DOMAIN files :
                existsSync(files', id) /\ files'[id] = files[id]
    ]_vars

(***************************************************************************)
(* The chat panel (ChatWebviewPanel) and handleSendMessage. A handler runs  *)
(* to its first await; what follows an await on the archive (whose file     *)
(* operations are synchronous) runs as a microtask before any other event,  *)
(* so each action is one event with the microtasks it leaves behind: the    *)
(* synchronous parts of all saves first, then their continuations in order. *)
(* An event comes at least a millisecond after the one before; inside a     *)
(* handler the clock may move on between two reads or stand still.          *)
(* The storage works here: its failures are those of the archive above.     *)
(***************************************************************************)
\* messages a user sends in a run
MaxSends == 2
\* sends that may wait for their completion at a time
MaxOutstanding == 2
\* the clock after which the panel takes no further event
MaxClock == 8

\* what the user types, trimmed by the webview: the n-th message of a run
Payloads == <<<<"h", "i">>, <<"y", "o", "!">>, <<"a", "n", "d">>, <<"?">>>>
\* choices[0].message.content of the completion of the request sent for prompt
ReplyText(prompt) == <<"r", "e", " ">> \o prompt
\* how a completion request ends in handleSendMessage: a response with a
\* choice; null or no choice; an exception (a response without choices)
Completions == {"choice", "null", "throw"}

\* this.messages of the panel
thisMessages(shared, turns) == IF shared.shared THEN turns ELSE shared.own
SharedMessages == [shared |-> TRUE, own |-> <<>>]
OwnMessages(turns) == [shared |-> FALSE, own |-> turns]

\* mutant: the turns put before the context message
turnsBeforeContext(contextMessages, turns) == turns \o contextMessages

\* [...contextMessages, ...state.chat.messages]
allMessages(contextMessages, turns) == contextMessages \o turns

\* the panel's archive state while a handler runs: pending holds what each
\* save still has to do after its await
Saving(dir, chatId, made, waiting) ==
  [files |-> dir, currentChatId |-> chatId, records |-> made, pending |-> waiting]

\* saveCurrentChat up to its await
saveCurrentChat(p, turns, time) ==
  IF Len(turns) = 0 THEN p
  ELSE IF p.currentChatId # NoChatId
  THEN LET updated == updateChatMessages(p.files, p.currentChatId[1], turns,
                                         time, FALSE)
       IN Saving(updated.files, p.currentChatId, p.records,
                 Append(p.pending,
                        IF updated.ret = Null THEN <<"create", 0>>
                        ELSE <<"refresh", 0>>))
  ELSE LET made == createChat(p.files, generateTitleFromMessages(turns), turns,
                              time, time, FALSE)
       IN Saving(made.files, p.currentChatId, p.records \cup {made.ret.chat.id},
                 Append(p.pending, <<"assign", made.ret.chat.id>>))

\* saveCurrentChat after its await: this.currentChatId = chat.id
RECURSIVE settle(_, _, _)
settle(p, turns, time) ==
  IF p.pending = <<>> THEN p
  ELSE LET todo == Head(p.pending) IN
       IF todo[1] = "assign"
       THEN settle(Saving(p.files, <<todo[2]>>, p.records, Tail(p.pending)),
                   turns, time)
       ELSE IF todo[1] = "create"
       THEN LET made == createChat(p.files, generateTitleFromMessages(turns),
                                   turns, time, time, FALSE)
            IN settle(Saving(made.files, <<made.ret.chat.id>>,
                             p.records \cup {made.ret.chat.id}, Tail(p.pending)),
                      turns, time)
       ELSE settle(Saving(p.files, p.currentChatId, p.records, Tail(p.pending)),
                   turns, time)

\* loadChatHistory
loadChatHistory(dir) == getChats(dir, FALSE).items

UserTurn(text) == Turn("user", text)
AssistantTurn(text) == Turn("assistant", text)

InitChat ==
  /\ InitFirstStart
  /\ nextId = 1
  /\ twin = <<>>
  /\ op = "createOrShow"
  /\ arg = <<>>
  /\ ret = Void
  /\ ChatIdle
  /\ ServiceIdle

\* the panel's fields after an event whose saves ended in p
PanelAfter(p) ==
  /\ files' = p.files
  /\ currentChatId' = p.currentChatId
  /\ chatHistory' = loadChatHistory(p.files)

\* the webview posts 'sendMessage': handleSendMessage up to the completion
\* request, then the handler's own saveCurrentChat
SendMessage ==
  \E tock \in Ticks :
    LET sent == Cardinality({i \in 1..Len(chatMessages) :
                              chatMessages[i].role = "user"})
        payload == Payloads[(sent % Len(Payloads)) + 1]
        turns == Append(chatMessages, UserTurn(payload))
        first == saveCurrentChat(Saving(files, currentChatId,
                                        conversation.records, <<>>),
                                 turns, now + 1)
        second == saveCurrentChat(first, turns, now + 1 + tock)
        done == settle(second, turns, now + 1 + tock)
    IN /\ now < MaxClock
       /\ sent < MaxSends
       /\ Cardinality(outstanding) < MaxOutstanding
       /\ chatMessages' = turns
       /\ panelMessages' = SharedMessages
       /\ isLoading' = TRUE
       /\ request' = allMessages(generateContextMessages(context), turns)
       /\ outstanding' = outstanding \cup {payload}
       /\ now' = now + 1 + tock
       /\ PanelAfter(done)
       /\ conversation' = [conversation EXCEPT !.records = done.records]
       /\ op' = "sendMessage"
       /\ arg' = payload
       /\ ret' = Void
       /\ UNCHANGED <<context, blob, nextId, pruned, twin, serviceVars>>

\* the completion of the send of one prompt comes back: the rest of that
\* handleSendMessage call, its finally block included
Completion ==
  \E prompt \in outstanding, outcome \in Completions :
    LET answered == outcome = "choice"
        turns == IF answered
                 THEN Append(chatMessages, AssistantTurn(ReplyText(prompt)))
                 ELSE chatMessages
        exchange == sliceFromEnd(turns, 2)
        done == settle(saveCurrentChat(Saving(files, currentChatId,
                                              conversation.records, <<>>),
                                       turns, now + 1),
                       turns, now + 1)
    IN /\ now < MaxClock
       /\ outstanding' = outstanding \ {prompt}
       /\ now' = now + 1
       /\ chatMessages' = turns
       /\ IF answered
          THEN /\ context' = addContext(context,
                                        messagesOptions(exchange, MessagesRelevance),
                                        nextId, now')
               /\ blob' = saveContext(context')
               /\ nextId' = nextId + 1
          ELSE UNCHANGED <<context, blob, nextId>>
       /\ isLoading' = FALSE
       /\ panelMessages' = SharedMessages
       /\ PanelAfter(done)
       /\ conversation' = [records |-> done.records,
                           abandoned |-> conversation.abandoned /\ outstanding' # {}]
       /\ op' = "completion"
       /\ arg' = <<prompt, outcome>>
       /\ ret' = Void
       /\ UNCHANGED <<pruned, twin, serviceVars, request>>

\* the webview posts 'newChat': startNewChat
StartNewChat ==
  /\ now < MaxClock
  /\ now' = now + 1
  /\ currentChatId' = NoChatId
  /\ panelMessages' = OwnMessages(<<>>)
  /\ conversation' = [records |-> {}, abandoned |-> outstanding # {}]
  /\ op' = "newChat"
  /\ arg' = <<>>
  /\ ret' = Void
  /\ UNCHANGED <<context, blob, nextId, pruned, twin, serviceVars,
                 files, chatMessages,
                 chatHistory, isLoading, outstanding, request>>

\* the webview posts 'loadChat' for a chat of the history popover
LoadChat ==
  \E i \in 1..Len(chatHistory) :
    LET chats == getChats(files, FALSE).items
        found == {k \in 1..Len(chats) : chats[k].id = chatHistory[i].id}
    IN /\ now < MaxClock
       /\ now' = now + 1
       /\ IF found = {}
          THEN UNCHANGED <<currentChatId, panelMessages, conversation>>
          ELSE LET chat == chats[CHOOSE k \in found : \A j \in found : k <= j]
               IN /\ currentChatId' = <<chat.id>>
                  /\ panelMessages' = OwnMessages(chat.messages)
                  /\ conversation' = [records |-> {chat.id},
                                      abandoned |-> outstanding # {}]
       /\ op' = "loadChat"
       /\ arg' = <<chatHistory[i].id>>
       /\ ret' = Void
       /\ UNCHANGED <<context, blob, nextId, pruned, twin, serviceVars, files,
                      chatMessages, chatHistory, isLoading, outstanding, request>>

\* the webview posts 'deleteChat' for a chat of the history popover
DeleteShownChat ==
  \E i \in 1..Len(chatHistory) :
    LET chatId == chatHistory[i].id
        deleted == deleteChat(files, chatId, FALSE)
    IN /\ now < MaxClock
       /\ now' = now + 1
       /\ files' = deleted.files
       /\ IF <<chatId>> = currentChatId
          THEN /\ currentChatId' = NoChatId
               /\ panelMessages' = OwnMessages(<<>>)
               /\ conversation' = [records |-> {}, abandoned |-> outstanding # {}]
          ELSE UNCHANGED <<currentChatId, panelMessages, conversation>>
       /\ chatHistory' = loadChatHistory(files')
       /\ op' = "deleteChat"
       /\ arg' = <<chatId>>
       /\ ret' = Void
       /\ UNCHANGED <<context, blob, nextId, pruned, twin, serviceVars,
                      chatMessages,
                      isLoading, outstanding, request>>

NextChat ==
  \/ SendMessage
  \/ Completion
  \/ StartNewChat
  \/ LoadChat
  \/ DeleteShownChat

SpecChat == InitChat /\ [][NextChat]_vars

(***************************************************************************)
(* C11. The messages of every completion request are the serializer's       *)
(* output (no message or one system message) followed by the turns of the   *)
(* conversation in the order they were made, the turn just sent last.       *)
(***************************************************************************)
RequestOrder ==
  [][ op' = "sendMessage"
      => LET system == generateContextMessages(context)
             before == Len(system)
         IN /\ before <= 1
            /\ Len(request') = before + Len(chatMessages) + 1
            /\ \A k \in 1..before :
                 request'[k] = system[k] /\ request'[k].role = "system"
            /\ \A k \in 1..Len(chatMessages) :
                 request'[before + k] = chatMessages[k]
            /\ request'[Len(request')].role = "user"
            /\ request'[Len(request')].content[1].label = arg'
    ]_vars

\* a request of the context message, an answered exchange and the new turn
RequestOrderWitness ==
  /\ op = "sendMessage"
  /\ Len(request) = 4
  /\ request[1].role = "system"
  /\ request[2].role = "user"
  /\ request[3].role = "assistant"
  /\ request[4].content[1].label = Payloads[2]

(***************************************************************************)
(* C15. A conversation has at most one chat in the archive: its first send  *)
(* creates one file and every later save of it updates that file.           *)
(***************************************************************************)
OneRecordPerConversation == Cardinality(conversation.records) <= 1

(***************************************************************************)
(* C16. When a new chat was started while a send was waiting, the           *)
(* completion of that send changes neither the panel's messages nor any     *)
(* file of the archive.                                                     *)
(***************************************************************************)
AbandonedSendIsIgnored ==
  [][ (op' = "completion" /\ conversation.abandoned)
      => /\ thisMessages(panelMessages', chatMessages')
              = thisMessages(panelMessages, chatMessages)
         /\ files' = files
    ]_vars

(***************************************************************************)
(* C23. The conversation item added to the context after a reply holds the  *)
(* user turn that the reply answers, followed by that reply; also when      *)
(* several sends wait for their completions and these come back in any     *)
(* order.                                                                   *)
(***************************************************************************)
ExchangeIsPromptAndReply ==
  [][ (op' = "completion" /\ arg'[2] = "choice")
        => \E i \in 1..Len(context') :
             /\ context'[i].id = nextId
             /\ context'[i].source = ContextSource.Conversation
             /\ context'[i].content
                  = joinMessages(<<UserTurn(arg'[1]),
                                   AssistantTurn(ReplyText(arg'[1]))>>)
    ]_vars

(***************************************************************************)
(* C29. state.chat.isLoading is true exactly while a completion request is  *)
(* waiting: true from the send on, also while sends overlap, and false once *)
(* the last of them has come back, with a choice, without one or with an    *)
(* exception.                                                               *)
(***************************************************************************)
LoadingWhileInFlight == isLoading <=> outstanding # {}

(***************************************************************************)
(* C30. After 'new chat', or after the chat shown was deleted, with no send *)
(* waiting, the next message starts a conversation of that one turn: the    *)
(* panel's messages, the completion request (after the context message) and *)
(* the chat written to the archive hold that turn and none sent before.     *)
(***************************************************************************)
\* the panel shows a conversation just started: no turn, no chat id
FreshConversation ==
  /\ op \in {"newChat", "deleteChat"}
  /\ currentChatId = NoChatId
  /\ thisMessages(panelMessages, chatMessages) = <<>>
  /\ outstanding = {}

NewChatStartsEmpty ==
  [][ (op' = "sendMessage" /\ FreshConversation)
        => LET turn == UserTurn(arg') IN
           /\ thisMessages(panelMessages', chatMessages') = <<turn>>
           /\ request' = generateContextMessages(context) \o <<turn>>
           /\ currentChatId' # NoChatId
           /\ \A id \in conversation'.records :
                reviveChat(files'[id]).messages = <<turn>>
    ]_vars

(***************************************************************************)
(* The API key (ConfigService) and the HTTP client (OpenRouterService).     *)
(* A key is the sequence of its characters. Every request of the client     *)
(* passes the request interceptor, which reads the key, checks its format   *)
(* and writes the Authorization header; the server answers with a 2xx       *)
(* response, with an error status (with or without an error body), or not   *)
(* at all. SecretStorage and the settings may refuse a read or a write.     *)
(***************************************************************************)
\* operations of a run
MaxServiceOps == 4

Chars(n, c) == [i \in 1..n |-> c]

\* String.prototype.startsWith and substring(start)
startsWith(text, prefix) ==
  /\ Len(text) >= Len(prefix)
  /\ SubSeq(text, 1, Len(prefix)) = prefix
substring(text, start) == SubSeq(text, start + 1, Len(text))

BearerPrefix == <<"B", "e", "a", "r", "e", "r", " ">>
KeyPrefix == <<"s", "k", "-", "o", "r", "-", "v", "1", "-">>
MinKeyLength == 20
\* 'stored-in-secret-storage'
Placeholder ==
  <<"s", "t", "o", "r", "e", "d", "-", "i", "n", "-", "s", "e", "c", "r", "e",
    "t", "-", "s", "t", "o", "r", "a", "g", "e">>

\* the keys a user enters: 21 characters with the prefix; that key behind
\* 'Bearer ', behind a blank, behind 'Bearer ' twice; a key of 20 characters,
\* alone and before a blank; another prefix; the placeholder; nothing
ShortKey == KeyPrefix \o Chars(MinKeyLength - Len(KeyPrefix), "x")
GoodKey == ShortKey \o <<"y">>
Keys ==
  { GoodKey,
    BearerPrefix \o GoodKey,
    <<" ">> \o GoodKey,
    BearerPrefix \o BearerPrefix \o GoodKey,
    ShortKey,
    ShortKey \o <<" ">>,
    <<"p", "k", "-">> \o GoodKey,
    Placeholder,
    <<>> }

\* what setApiKey leaves: the secret, the setting, and its return
Stored(secret, setting, result) ==
  [ret |-> result, secretKey |-> secret, settingsKey |-> setting]

\* ConfigService.setApiKey
setApiKey(secret, setting, apiKey, storeFails, updateFails, fallbackFails) ==
  IF apiKey = <<>> THEN Stored(secret, setting, Void)
  ELSE IF ~storeFails /\ ~updateFails
  THEN Stored(<<apiKey>>, Placeholder, Void)
  ELSE LET kept == IF storeFails THEN secret ELSE <<apiKey>>
       IN IF fallbackFails THEN Stored(kept, setting, Thrown)
          ELSE Stored(kept, apiKey, Void)

\* ConfigService.getApiKey
getApiKey(secret, setting, getFails) ==
  IF getFails THEN <<>>
  ELSE IF secret # NoSecret /\ secret[1] # <<>> THEN secret[1]
  ELSE IF setting # <<>> /\ setting # Placeholder THEN setting
  ELSE <<>>

\* mutant: the key is taken as it is
anyKeyFormat(apiKey) == TRUE

\* OpenRouterService.isValidApiKeyFormat
isValidApiKeyFormat(apiKey) ==
  LET trimmedKey == IF startsWith(apiKey, BearerPrefix)
                    THEN trim(substring(apiKey, 7))
                    ELSE trim(apiKey)
  IN startsWith(trimmedKey, KeyPrefix) /\ Len(trimmedKey) > MinKeyLength

\* getValidatedApiKey returns the key (it throws otherwise)
getValidatedApiKey(apiKey) == apiKey # <<>> /\ isValidApiKeyFormat(apiKey)

\* the interceptor's formattedKey
formattedKey(apiKey) ==
  IF startsWith(apiKey, BearerPrefix) THEN apiKey ELSE BearerPrefix \o apiKey

\* how the server answers a request that was sent
Replies == {"ok", "status", "errorBody", "dataPolicy", "noResponse"}

HttpRequest(path, authorization) == [path |-> path, Authorization |-> authorization]

\* what a call of the client leaves: the requests sent and the error thrown
\* ("none": a response; "setup": the interceptor threw)
Exchange(requests, failure) == [dispatched |-> requests, error |-> failure]

\* this.client.get(path) and this.client.post(path, ...)
send(path, apiKey, reply) ==
  IF ~getValidatedApiKey(apiKey) THEN Exchange(<<>>, "setup")
  ELSE Exchange(<<HttpRequest(path, formattedKey(apiKey))>>,
                IF reply = "ok" THEN "none" ELSE reply)

\* what getModels leaves: the cache, the requests sent, its return
Fetched(cache, requests, result) ==
  [ret |-> result, models |-> cache, dispatched |-> requests]

\* mutant: every call fetches
getModelsUncached(cache, apiKey, reply, fetched) ==
  LET sent == send("/models", apiKey, reply)
  IN IF sent.error = "none"
     THEN Fetched(fetched, sent.dispatched, ArrayResult(fetched))
     ELSE Fetched(cache, sent.dispatched, ArrayResult(<<>>))

\* OpenRouterService.getModels; fetched is response.data.data
getModels(cache, apiKey, reply, fetched) ==
  IF Len(cache) > 0 THEN Fetched(cache, <<>>, ArrayResult(cache))
  ELSE LET sent == send("/models", apiKey, reply)
       IN IF sent.error = "none"
          THEN Fetched(fetched, sent.dispatched, ArrayResult(fetched))
          ELSE Fetched(cache, sent.dispatched, ArrayResult(<<>>))

\* response.data of a completion
ResponseData == [kind |-> "completion"]

\* what sendCompletion leaves: the requests sent, its return
Completed(requests, result) == [ret |-> result, dispatched |-> requests]

\* mutant: a request that failed is sent once more
sendCompletionRetries(apiKey, reply) ==
  LET sent == send("/chat/completions", apiKey, reply)
  IN IF sent.error = "none" THEN Completed(sent.dispatched, ResponseData)
     ELSE Completed(sent.dispatched \o sent.dispatched, Null)

\* OpenRouterService.sendCompletion
sendCompletion(apiKey, reply) ==
  LET sent == send("/chat/completions", apiKey, reply)
  IN IF sent.error = "none" THEN Completed(sent.dispatched, ResponseData)
     ELSE IF sent.error \in {"status", "errorBody", "dataPolicy"}
     THEN Completed(sent.dispatched, Null)
     ELSE IF sent.error = "noResponse" THEN Completed(sent.dispatched, Null)
     ELSE Completed(sent.dispatched, Null)

\* OpenRouterService.validateApiConnection: { success }
validateApiConnection(apiKey, reply) ==
  IF apiKey = <<>> THEN Completed(<<>>, BoolResult(FALSE))
  ELSE LET sent == send("/models", apiKey, reply)
       IN Completed(sent.dispatched, BoolResult(sent.error = "none"))

\* response.data.data of GET /models
ModelLists == {<<>>, <<"openai/gpt-4o">>, <<"openai/gpt-4o", "google/gemini-pro">>}

InitService ==
  /\ InitFirstStart
  /\ nextId = 1
  /\ twin = <<>>
  /\ op = "activate"
  /\ arg = <<>>
  /\ ret = Void
  /\ ChatIdle
  /\ ServiceIdle

\* an operation of the two services
ServiceStep(name, argument, result) ==
  /\ nextId <= MaxServiceOps
  /\ nextId' = nextId + 1
  /\ op' = name
  /\ arg' = argument
  /\ ret' = result
  /\ UNCHANGED <<context, blob, now, pruned, twin, chatVars>>

SetApiKey ==
  \E apiKey \in Keys, storeFails \in BOOLEAN, updateFails \in BOOLEAN,
     fallbackFails \in BOOLEAN :
    LET stored == setApiKey(secretKey, settingsKey, apiKey, storeFails,
                            updateFails, fallbackFails)
    IN /\ storeFails => ~updateFails
       /\ (~storeFails /\ ~updateFails) => ~fallbackFails
       /\ secretKey' = stored.secretKey
       /\ settingsKey' = stored.settingsKey
       /\ dispatched' = <<>>
       /\ ServiceStep("setApiKey", <<apiKey, storeFails>>, stored.ret)
       /\ UNCHANGED models

GetApiKey ==
  \E getFails \in BOOLEAN :
    /\ dispatched' = <<>>
    /\ ServiceStep("getApiKey", <<getFails>>,
                   StringResult(getApiKey(secretKey, settingsKey, getFails)))
    /\ UNCHANGED <<secretKey, settingsKey, models>>

GetModels ==
  \E reply \in Replies, fetched \in ModelLists, getFails \in BOOLEAN :
    LET got == getModels(models, getApiKey(secretKey, settingsKey, getFails),
                         reply, fetched)
    IN /\ reply # "ok" => fetched = <<>>
       /\ models' = got.models
       /\ dispatched' = got.dispatched
       /\ ServiceStep("getModels", <<reply, fetched, getFails>>, got.ret)
       /\ UNCHANGED <<secretKey, settingsKey>>

SendCompletion ==
  \E reply \in Replies, getFails \in BOOLEAN :
    LET done == sendCompletion(getApiKey(secretKey, settingsKey, getFails), reply)
    IN /\ dispatched' = done.dispatched
       /\ ServiceStep("sendCompletion", <<reply, getFails>>, done.ret)
       /\ UNCHANGED <<secretKey, settingsKey, models>>

ValidateApiConnection ==
  \E reply \in Replies :
    LET done == validateApiConnection(getApiKey(secretKey, settingsKey, FALSE),
                                      reply)
    IN /\ dispatched' = done.dispatched
       /\ ServiceStep("validateApiConnection", <<reply>>, done.ret)
       /\ UNCHANGED <<secretKey, settingsKey, models>>

NextService ==
  \/ SetApiKey
  \/ GetApiKey
  \/ GetModels
  \/ SendCompletion
  \/ ValidateApiConnection

SpecService == InitService /\ [][NextService]_vars

\* the key the interceptor reads when SecretStorage answers
configuredKey == getApiKey(secretKey, settingsKey, FALSE)

\* a key without its 'Bearer ' prefix, if it has one
stripBearer(key) == IF startsWith(key, BearerPrefix) THEN substring(key, 7) ELSE key

\* a header value that starts with 'Bearer ' once, not twice
OneBearer(header) ==
  /\ startsWith(header, BearerPrefix)
  /\ ~startsWith(substring(header, 7), BearerPrefix)

(***************************************************************************)
(* C22. The client sends a request only when the configured key is not      *)
(* empty and has the format of a key: without its optional 'Bearer ' prefix *)
(* it starts with 'sk-or-v1-' and has more than 20 characters. Every        *)
(* request sent has an Authorization header that starts with 'Bearer '      *)
(* exactly once, whether the stored key had the prefix or not.              *)
(***************************************************************************)
DispatchOnlyWithValidKey ==
  \A i \in 1..Len(dispatched) :
    /\ configuredKey # <<>>
    /\ startsWith(stripBearer(configuredKey), KeyPrefix)
    /\ Len(stripBearer(configuredKey)) > MinKeyLength
    /\ OneBearer(dispatched[i].Authorization)

\* as above, the format checked after the blanks around the key are dropped:
\* the header carries the key as it is stored, blanks included
DispatchOnlyWithTrimmedValidKey ==
  \A i \in 1..Len(dispatched) :
    /\ configuredKey # <<>>
    /\ startsWith(trim(stripBearer(configuredKey)), KeyPrefix)
    /\ Len(trim(stripBearer(configuredKey))) > MinKeyLength
    /\ OneBearer(dispatched[i].Authorization)
    /\ dispatched[i].Authorization
         = BearerPrefix \o stripBearer(configuredKey)

\* a request sent for a key stored with its 'Bearer ' prefix
DispatchWitness ==
  /\ Len(dispatched) = 1
  /\ startsWith(configuredKey, BearerPrefix)
  /\ dispatched[1].Authorization = configuredKey

RawKeyOnlyAfterStoreFailure ==
  [][ /\ (op' = "setApiKey" /\ arg'[1] # <<>>)
        => /\ (settingsKey' = arg'[1] /\ arg'[1] # Placeholder) => arg'[2]
           /\ ~arg'[2] => settingsKey' = Placeholder
      /\ op' = "getApiKey" => ret'.value # Placeholder
    ]_vars

(***************************************************************************)
(* C27. Once getModels has fetched a list that is not empty, every later    *)
(* getModels returns that list and sends no request; a fetch that fails     *)
(* returns the empty list and leaves the cache empty, so that the next call *)
(* fetches again.                                                           *)
(***************************************************************************)
ModelCache ==
  [][ /\ models' # models => (op' = "getModels" /\ models = <<>>)
      /\ op' = "getModels"
           => IF Len(models) > 0
              THEN /\ ret' = ArrayResult(models)
                   /\ dispatched' = <<>>
              ELSE /\ Len(dispatched') <= 1
                   /\ (~arg'[3] /\ getValidatedApiKey(configuredKey))
                        => Len(dispatched') = 1
                   /\ (arg'[1] = "ok" /\ dispatched' # <<>>)
                        => (ret' = ArrayResult(arg'[2]) /\ models' = arg'[2])
                   /\ (arg'[1] # "ok" \/ dispatched' = <<>>)
                        => (ret' = ArrayResult(<<>>) /\ models' = <<>>)
    ]_vars

\* the list fetched before, returned without a request
ModelCacheWitness ==
  /\ op = "getModels"
  /\ dispatched = <<>>
  /\ Len(models) = 2
  /\ ret = ArrayResult(models)

====
